---- MODULE Spec2Model ----
(***************************************************************************)
(* Access gating and file registry of the Telegram file store bot.         *)
(*                                                                         *)
(* The repository holds the bot in three variants:                         *)
(*   "json"  : src/index.js, in-memory db object saved to database.json    *)
(*   "mongo" : src/unnamed/part_000 lines 429-1268, mongoose models        *)
(*   "mini"  : src/unnamed/part_000 lines 1-427, the db object again, with *)
(*             the handlers of "json" except where noted                   *)
(* The variable `variant` is fixed by Init and selects the handlers.       *)
(*                                                                         *)
(* A handler is a process slot of `h`: it runs from one await that reads   *)
(* or writes the store to the next in one step, so handlers interleave at  *)
(* those awaits.  Awaits on the platform alone (getChatMember, the         *)
(* shortener request, replies, log messages) touch no shared state and are *)
(* taken together with the step they follow.  A handler with a single      *)
(* store access is one step.  Profile fields that no handler reads         *)
(* (firstName, username, lastActive, joinedAt, caption, fileName,          *)
(* fileSize, title) are left out.                                          *)
(*                                                                         *)
(* The platform is an input: getChatMember, getChat, the shortener and the *)
(* sending of a file each answer or fail.  The store answers every query;  *)
(* the two saves inside the try block of the delivery (part_000 710-714)   *)
(* may also reject, since its catch decides what the user is told.         *)
(*                                                                         *)
(* Spec runs the handlers one at a time, SpecConc interleaves two of them. *)
(* SpecStoreFaults is the MongoDB variant with a store whose read of the   *)
(* channel set may reject as well (the outer catch of checkSubscription).  *)
(* SpecUsers is the user registry of the MongoDB variant with /broadcast.  *)
(* SpecAdmin is the admin surface of all variants, every command from      *)
(* every caller.  SpecLog runs uploads, redemptions and verifications with *)
(* a log channel that may be out of reach.  SpecDisk is the json variant   *)
(* with saveDB writes that stay in flight while other handlers run, and    *)
(* SpecLoad is loadDB over the database.json files it can find.            *)
(***************************************************************************)
EXTENDS Integers, Sequences, FiniteSets, Bags, TLC

\* ---------------------------------------------------------------- bounds
\* number of handler invocations in one run
MaxOps == 4
\* the same, when handlers are dispatched concurrently
MaxConcOps == 3
\* the clock (new Date()) runs over 0..MaxTime
MaxTime == 1

\* ---------------------------------------------------------------- domains
Procs == {"p1", "p2"}
Users == {"u1", "u2"}
\* config.admins and config.ownerId
Admins == {"adm"}
OwnerId == "own"
Callers == Users \cup Admins \cup {OwnerId}
\* values generateCode can draw
Codes == {"c1", "c2"}
FileTypes == {"document", "video", "audio", "photo"}
\* the file messages users send: sender, transport file_id, message field
Uploads == {[from |-> "u1", fileId |-> "f1", fileType |-> "document"],
            [from |-> "u2", fileId |-> "f2", fileType |-> "photo"]}
\* channel handles an admin can name and the chat ids they resolve to
Handles == {"@a", "@b"}
ChatIds == {"-1001", "-1002"}
\* answers of getChatMember: a member status, or the call throws
Satisfying == {"member", "administrator", "creator"}
Statuses == Satisfying \cup {"left"}
Throw == "throw"
MemberAnswers == Statuses \cup {Throw}

Null == [null |-> TRUE]

\* the variants that keep the store in the db object: src/index.js and the
\* smaller bot of src/unnamed/part_000 lines 1-427
JsonVariants == {"json", "mini"}

VARIABLES
  variant,   \* which bot variant runs
  conc,      \* updates are dispatched while another handler is in flight
  users,     \* User collection / db.users : userId -> record
  files,     \* File collection / db.files : shortCode -> record
  channels,  \* Channel collection / db.channels : sequence of records
  settings,  \* Setting collection / db.settings : key -> value
  now,       \* the clock read by new Date()
  ops,       \* number of handler invocations so far
  h,         \* handler slots
  sent,      \* files handed to the transport: history of successful sends
  issued,    \* short codes returned to uploaders, in order
  acks,      \* per user, the number of completed verify_<code> callbacks
  uniqueFileId,  \* mongo: the unique index on File.fileUniqueId was built
  outcomes,  \* bag of <<user, code, outcome>> of the redemptions that returned
  timers,    \* message ids with a pending setTimeout of autoDelete
  attempted, \* deleteMessage calls made by fired timers: [msg, ok]
  broadcast, \* mongo: the report of the last /broadcast that ran its loop
  inserts,   \* mongo: Channel documents of addchannel handlers awaiting their save
  denied,    \* the callers whose command was answered with the refusal
  logUp,     \* the bot can write to config.logChannel
  disk,      \* json: the content of database.json
  writes,    \* json: snapshots handed to fs.writeFile that have not been written yet
  slow       \* a saveDB write takes long enough for other handlers to run meanwhile

vars == <<variant, conc, users, files, channels, settings, now, ops, h, sent, issued, acks, uniqueFileId, outcomes, timers, attempted, broadcast, inserts, denied, logUp, disk, writes, slow>>

\* ---------------------------------------------------------------- helpers
\* f with key k bound to v (insert or replace)
Put(f, k, v) == [x \in DOMAIN f \cup {k} |-> IF x = k THEN v ELSE f[x]]

\* document d with the paths of update u set ($set of every key of u)
SetPaths(d, u) == [k \in DOMAIN d \cup DOMAIN u |-> IF k \in DOMAIN u THEN u[k] ELSE d[k]]

\* the paths of UserSchema
UserSchemaPaths == {"isVerified", "isBanned", "verifiedAt", "filesShared", "filesAccessed"}

\* a User document as inserted by an upsert: the schema defaults
UserDefaults == [isVerified |-> FALSE, isBanned |-> FALSE, verifiedAt |-> {},
                 filesShared |-> 0, filesAccessed |-> 0]

\* a User document the database holds when the bot connects, verified earlier
StoredVerifiedUser == [UserDefaults EXCEPT !.isVerified = TRUE, !.verifiedAt = {0}]

\* mongoose casts an update against the schema: with the default strict mode a
\* key that is no path of the schema is dropped from the update
CastUserUpdate(u) == [k \in DOMAIN u \cap UserSchemaPaths |-> u[k]]

\* User.findOneAndUpdate({userId}, update, {upsert}) on the collection us
UserFindOneAndUpdate(us, userId, update, upsert) ==
  IF userId \in DOMAIN us
    THEN Put(us, userId, SetPaths(us[userId], CastUserUpdate(update)))
    ELSE IF upsert
      THEN Put(us, userId, SetPaths(UserDefaults, CastUserUpdate(update)))
      ELSE us

\* updateUserActivity(userId, {firstName, username}): upsert of profile fields
updateUserActivity(us, userId) == UserFindOneAndUpdate(us, userId, <<>>, TRUE)

\* getSetting(key, defaultValue)
getSetting(key, defaultValue) == IF key \in DOMAIN settings THEN settings[key] ELSE defaultValue

isOwner(userId) == userId = OwnerId
\* a check that admits every caller
isAnyone(userId) == TRUE

\* index.js 51; part_000 498 adds the owner
isAdmin(userId) == userId \in Admins \/ (variant = "mongo" /\ isOwner(userId))

\* ---------------------------------------------------------------- links
\* `https://t.me/${config.botUsername}?start=${args}`
DeepLink(code) == [kind |-> "deep", code |-> code]
\* what the shortener answers with for a long url
ShortLink(url) == [kind |-> "short", of |-> url]
Undefined == [kind |-> "undefined"]

\* outcomes of axios.get(apiUrl, { timeout: 10000 })
\*   timeout / error : the promise rejects
\*   nodata          : resolves, response.data is undefined
\*   status_error    : resolves, data = { status: 'error', message }
\*   ok              : resolves, data = { status: 'success', shortenedUrl }
\*   malformed       : resolves, data is an object without shortenedUrl
ShortenerResponses == {"timeout", "error", "nodata", "status_error", "ok", "malformed"}

\* createShortLink(url) given !domain || !api and the shortener's response
createShortLink(url, configured, resp) ==
  IF ~configured THEN url
  ELSE IF resp \in {"timeout", "error"} THEN url      \* catch (err)
  ELSE IF resp = "nodata" THEN url                    \* TypeError on data.status, caught
  ELSE IF resp = "status_error" THEN url
  ELSE IF resp = "ok" THEN ShortLink(url)
  ELSE Undefined                                      \* response.data.shortenedUrl

\* ---------------------------------------------------------------- json: saveDB
\* the in-memory db of the json variants
DB == [users |-> users, files |-> files, channels |-> channels, settings |-> settings]

\* await saveDB() as the last statement of a step that ran it (saved): the
\* snapshot JSON.stringify(db) is taken at the call; the write is done when the
\* step ends, or stays in flight
Persist(saved) ==
  IF saved /\ variant \in JsonVariants
    THEN IF slow
           THEN writes' = Append(writes, DB') /\ disk' = disk
           ELSE writes' = writes /\ disk' = DB'
    ELSE writes' = writes /\ disk' = disk

\* ---------------------------------------------------------------- handler slots
Idle == [kind |-> "idle", pc |-> "idle", user |-> "", code |-> "", file |-> Null,
         usr |-> Null, gates |-> <<>>, notJoined |-> <<>>, thrown |-> <<>>,
         cfg |-> FALSE, resp |-> "", shortUrl |-> Undefined, outcome |-> "", fileId |-> "",
         fileType |-> "", acked |-> FALSE, ack |-> "", msg |-> 0, effects |-> {}]

Budget == IF conc THEN MaxConcOps ELSE MaxOps

Free(p) == h[p].pc \in {"idle", "done"}

\* an update is handled in the first free slot; without conc, one at a time
CanDispatch(p) ==
  /\ Free(p)
  /\ \A q \in Procs : Free(q) => (p = q \/ p = "p1")
  /\ conc \/ (inserts = <<>> /\ \A q \in Procs : Free(q))

\* a single-step handler runs; without conc, only between other handlers
CanRun == conc \/ (inserts = <<>> /\ \A q \in Procs : Free(q))

\* a write to the log channel whose rejection nothing catches
LogUncaught(resolved) == ~resolved

\* a write to the log channel, resolved or not, throws into the handler: never,
\* the uploads wrap forwardMessage and sendMessage in try { } catch (err) {
\* console.error } and the other writes end in .catch(() => {})
LogThrows(resolved) == FALSE

\* the handler returned: the slot keeps what it answered with and what it did
Finish(r, outcome) ==
  [Idle EXCEPT !.kind = r.kind, !.pc = "done", !.outcome = outcome, !.user = r.user,
               !.code = r.code, !.acked = r.acked, !.resp = r.resp, !.cfg = r.cfg, !.shortUrl = r.shortUrl,
               !.gates = r.gates, !.notJoined = r.notJoined, !.thrown = r.thrown,
               !.ack = r.ack, !.msg = r.msg, !.effects = r.effects]

\* the bag of outcomes after the step of slot p: a redemption that returned is
\* counted with what it answered
Tally(p) ==
  outcomes' = IF h'[p].kind = "start" /\ h'[p].pc = "done"
                THEN outcomes (+) SetToBag({<<h'[p].user, h'[p].code, h'[p].outcome>>})
                ELSE outcomes

\* ---------------------------------------------------------------- checkSubscription
\* the loop of checkSubscription over channels chs from index i on, given the
\* answer of getChatMember for each channel: r carries notJoined and, for the
\* record, the channels whose query threw (the catch only logs)
RECURSIVE SubscriptionLoop(_, _, _, _)
SubscriptionLoop(chs, answers, i, r) ==
  IF i > Len(chs) THEN r
  ELSE SubscriptionLoop(chs, answers, i + 1,
         [notJoined |-> IF answers[i] # Throw /\ answers[i] \notin Satisfying
                          THEN Append(r.notJoined, chs[i]) ELSE r.notJoined,
          thrown |-> IF answers[i] = Throw THEN Append(r.thrown, chs[i]) ELSE r.thrown])

\* the check that is skipped for a user whose acknowledgement was handled
checkSubscriptionOnce(r, chs, answers) ==
  LET res == IF r.acked THEN [notJoined |-> <<>>, thrown |-> <<>>]
             ELSE SubscriptionLoop(chs, answers, 1, [notJoined |-> <<>>, thrown |-> <<>>]) IN
  [r EXCEPT !.gates = chs, !.notJoined = res.notJoined, !.thrown = res.thrown,
            !.effects = IF Len(chs) = 0 THEN @ ELSE @ \cup {"query"}]

\* checkSubscription(ctx) on the channels chs: the handler slot after the loop
checkSubscription(r, chs, answers) ==
  LET res == SubscriptionLoop(chs, answers, 1, [notJoined |-> <<>>, thrown |-> <<>>]) IN
  [r EXCEPT !.gates = chs, !.notJoined = res.notJoined, !.thrown = res.thrown,
            !.effects = IF Len(chs) = 0 THEN @ ELSE @ \cup {"query"}]

\* the check passing only with a channel configured and none missing
PassedWithChannels(r) == Len(r.gates) > 0 /\ Len(r.notJoined) = 0

\* its return value: if (notJoined.length > 0) ... return false, else true
SubscriptionPassed(r) == Len(r.notJoined) = 0

\* ---------------------------------------------------------------- mongo: bot.start
\* dispatch, updateUserActivity
MStart(p, u, c) ==
  /\ variant = "mongo" /\ CanDispatch(p) /\ ops < Budget
  /\ ops' = ops + 1
  /\ users' = updateUserActivity(users, u)
  /\ h' = [h EXCEPT ![p] = [Idle EXCEPT !.kind = "start", !.pc = "lookup", !.user = u,
                                        !.code = c, !.acked = (acks[u] > 0)]]
  /\ UNCHANGED <<variant, conc, files, channels, settings, now, sent, issued, acks, uniqueFileId, outcomes, timers, attempted, broadcast, inserts, denied, logUp, disk, writes, slow>>

\* the lookup without the isActive filter
FileFindAny(fs, c) == IF c \in DOMAIN fs THEN fs[c] ELSE Null

\* File.findOne({ shortCode: args, isActive: true })
FileFindActive(fs, c) == IF c \in DOMAIN fs /\ fs[c].isActive THEN fs[c] ELSE Null

MLookup(p) ==
  /\ variant = "mongo" /\ h[p].kind = "start" /\ h[p].pc = "lookup"
  /\ LET file == FileFindActive(files, h[p].code) IN
     IF file # Null
       THEN h' = [h EXCEPT ![p] = [@ EXCEPT !.file = file, !.pc = "ban"]]
       ELSE h' = [h EXCEPT ![p] = Finish(@, "NOT_FOUND")]
  /\ UNCHANGED <<variant, conc, users, files, channels, settings, now, ops, sent, issued, acks, uniqueFileId, timers, attempted, broadcast, inserts, denied, logUp, disk, writes, slow>>
  /\ Tally(p)

\* the ban check left out
BannedNever(usr) == FALSE

\* if (user && user.isBanned)
Banned(usr) == usr # Null /\ usr.isBanned

\* User.findOne({ userId }) and the ban check
MBanCheck(p) ==
  /\ variant = "mongo" /\ h[p].kind = "start" /\ h[p].pc = "ban"
  /\ LET u == h[p].user
         usr == IF u \in DOMAIN users THEN users[u] ELSE Null IN
     IF Banned(usr)
       THEN h' = [h EXCEPT ![p] = Finish(@, "BLOCKED")]
       ELSE h' = [h EXCEPT ![p] = [@ EXCEPT !.usr = usr, !.pc = "checksub"]]
  /\ UNCHANGED <<variant, conc, users, files, channels, settings, now, ops, sent, issued, acks, uniqueFileId, timers, attempted, broadcast, inserts, denied, logUp, disk, writes, slow>>
  /\ Tally(p)

\* the handler starting over at the lookup after the subscription check
MongoRestart(r) == [r EXCEPT !.pc = "lookup"]

\* if (!user || !user.isVerified) on the user read by the ban check
MongoAfterSub(r) ==
  IF r.usr = Null \/ ~r.usr.isVerified
    THEN [r EXCEPT !.pc = "shorten"]
    ELSE [r EXCEPT !.pc = "send"]

\* checkSubscription: Channel.find(), the getChatMember loop, the join prompt
MCheckSub(p) ==
  /\ variant = "mongo" /\ h[p].kind = "start" /\ h[p].pc = "checksub"
  /\ \E answers \in [1..Len(channels) -> MemberAnswers] :
       LET r == checkSubscription(h[p], channels, answers) IN
       IF SubscriptionPassed(r)
         THEN h' = [h EXCEPT ![p] = MongoAfterSub(r)]
         ELSE h' = [h EXCEPT ![p] = Finish(r, "PENDING_SUBSCRIPTION")]
  /\ UNCHANGED <<variant, conc, users, files, channels, settings, now, ops, sent, issued, acks, uniqueFileId, timers, attempted, broadcast, inserts, denied, logUp, disk, writes, slow>>
  /\ Tally(p)

\* checkSubscription when Channel.find() rejects: the outer catch logs and
\* returns true, and bot.start goes on as after a check that passed
MCheckSubUnread(p) ==
  /\ variant = "mongo" /\ h[p].kind = "start" /\ h[p].pc = "checksub"
  /\ h' = [h EXCEPT ![p] = MongoAfterSub([@ EXCEPT !.effects = @ \cup {"findfailed"}])]
  /\ UNCHANGED <<variant, conc, users, files, channels, settings, now, ops, sent, issued, acks, uniqueFileId, outcomes, timers, attempted, broadcast, inserts, denied, logUp, disk, writes, slow>>

\* !domain || !api is false
Configured(domain, api) == domain # "" /\ api # ""

\* createShortLink(fileUrl): getSetting of domain and api, the request
MShorten(p) ==
  /\ variant = "mongo" /\ h[p].kind = "start" /\ h[p].pc = "shorten"
  /\ \E resp \in ShortenerResponses :
       LET cfg == Configured(getSetting("adlink_domain", ""), getSetting("adlink_api", "")) IN
       h' = [h EXCEPT ![p] = [@ EXCEPT
               !.cfg = cfg, !.resp = IF cfg THEN resp ELSE "",
               !.shortUrl = createShortLink(DeepLink(h[p].code), cfg, resp),
               !.pc = "views"]]
  /\ UNCHANGED <<variant, conc, users, files, channels, settings, now, ops, sent, issued, acks, uniqueFileId, outcomes, timers, attempted, broadcast, inserts, denied, logUp, disk, writes, slow>>

\* file.save() after one counter of the loaded document was changed: mongoose
\* writes the modified path with the document's new value
FileSavePath(fs, c, path, value) ==
  [fs EXCEPT ![c] = [k \in DOMAIN @ |-> IF k = path THEN value ELSE @[k]]]

\* file.views += 1; await file.save(); the reply with the challenge
MViewsSave(p) ==
  /\ variant = "mongo" /\ h[p].kind = "start" /\ h[p].pc = "views"
  /\ files' = FileSavePath(files, h[p].code, "views", h[p].file.views + 1)
  /\ h' = [h EXCEPT ![p] = Finish([@ EXCEPT !.ack = h[p].code,
                                             !.effects = @ \cup {"views", "challenge"}],
                                  "PENDING_VERIFICATION")]
  /\ UNCHANGED <<variant, conc, users, channels, settings, now, ops, sent, issued, acks, uniqueFileId, timers, attempted, broadcast, inserts, denied, logUp, disk, writes, slow>>
  /\ Tally(p)

\* the persisted verified flag of user u
Verified(u) ==
  /\ u \in DOMAIN users
  /\ IF variant = "mongo" THEN users[u].isVerified ELSE users[u].verified

\* the send operation the delivery calls for a record of type fileType:
\* replyWithDocument / Video / Audio / Photo by the if-chain on file.fileType;
\* the delivery of "mini" calls ctx.telegram.sendDocument for every record
SendMethod(fileType) == IF variant = "mini" THEN "document" ELSE fileType

\* what a successful send hands to the transport, and on which grounds
Delivery(p, protect, seconds) ==
  [user |-> h[p].user, code |-> h[p].code, fileId |-> h[p].file.fileId,
   fileType |-> h[p].file.fileType, method |-> SendMethod(h[p].file.fileType),
   protect |-> protect, seconds |-> seconds,
   gates |-> h[p].gates, notJoined |-> h[p].notJoined, thrown |-> h[p].thrown,
   verified |-> Verified(h[p].user)]

\* getSetting('protect_content'), ctx.replyWith<Type>(file.fileId, ...)
MSend(p) ==
  /\ variant = "mongo" /\ h[p].kind = "start" /\ h[p].pc = "send"
  /\ \E ok \in BOOLEAN :
       IF ok
         THEN /\ sent' = Append(sent, Delivery(p, getSetting("protect_content", FALSE),
                                                   getSetting("auto_delete", 0)))
              /\ h' = [h EXCEPT ![p] = [@ EXCEPT !.pc = "downloads", !.msg = Len(sent) + 1,
                                                 !.effects = @ \cup {"send"}]]
         ELSE /\ sent' = sent
              /\ h' = [h EXCEPT ![p] = Finish(@, "DELIVERY_FAILED")]
  /\ UNCHANGED <<variant, conc, users, files, channels, settings, now, ops, issued, acks, uniqueFileId, timers, attempted, broadcast, inserts, denied, logUp, disk, writes, slow>>
  /\ Tally(p)

\* file.downloads += 1; await file.save(): the save resolves, or it rejects and
\* the catch around the send answers 'Error sending file'
MDownloadsSave(p) ==
  /\ variant = "mongo" /\ h[p].kind = "start" /\ h[p].pc = "downloads"
  /\ \E ok \in BOOLEAN :
       IF ok
         THEN /\ files' = FileSavePath(files, h[p].code, "downloads", h[p].file.downloads + 1)
              /\ h' = [h EXCEPT ![p] = [@ EXCEPT !.pc = "accessed", !.effects = @ \cup {"downloads"}]]
         ELSE /\ files' = files
              /\ h' = [h EXCEPT ![p] = Finish(@, "DELIVERY_FAILED")]
  /\ UNCHANGED <<variant, conc, users, channels, settings, now, ops, sent, issued, acks, uniqueFileId, timers, attempted, broadcast, inserts, denied, logUp, disk, writes, slow>>
  /\ Tally(p)

\* user.filesAccessed += 1; await user.save(): resolves, or rejects as above
MUserSave(p) ==
  /\ variant = "mongo" /\ h[p].kind = "start" /\ h[p].pc = "accessed"
  /\ \E ok \in BOOLEAN :
       IF ok
         THEN /\ LET u == h[p].user IN
                 users' = [users EXCEPT ![u] = [@ EXCEPT !.filesAccessed = h[p].usr.filesAccessed + 1]]
              /\ h' = [h EXCEPT ![p] = [@ EXCEPT !.pc = "autodelete",
                                                 !.effects = @ \cup {"filesAccessed"}]]
         ELSE /\ users' = users
              /\ h' = [h EXCEPT ![p] = Finish(@, "DELIVERY_FAILED")]
  /\ UNCHANGED <<variant, conc, files, channels, settings, now, ops, sent, issued, acks, uniqueFileId, timers, attempted, broadcast, inserts, denied, logUp, disk, writes, slow>>
  /\ Tally(p)

\* autoDelete(ctx, msgId) given the auto_delete setting it read: if (seconds > 0)
\* setTimeout(() => ctx.deleteMessage(msgId)...)
autoDelete(ts, seconds, msgId) == IF seconds > 0 THEN ts \cup {msgId} ELSE ts

\* autoDelete: await getSetting('auto_delete', 0), setTimeout; the download log
MAutoDelete(p) ==
  /\ variant = "mongo" /\ h[p].kind = "start" /\ h[p].pc = "autodelete"
  /\ timers' = autoDelete(timers, getSetting("auto_delete", 0), h[p].msg)
  /\ h' = [h EXCEPT ![p] = IF LogThrows(logUp)
                              THEN Finish(@, "DELIVERY_FAILED")
                              ELSE Finish([@ EXCEPT !.effects = @ \cup {"audit"}], "DELIVER")]
  /\ UNCHANGED <<variant, conc, users, files, channels, settings, now, ops, sent, issued, acks, uniqueFileId, attempted, broadcast, inserts, denied, logUp, disk, writes, slow>>
  /\ Tally(p)

\* ---------------------------------------------------------------- mongo: verify_<code>
\* the update document of the callback, with new Date() = t
MongoVerifyUpdate(t) == [verified |-> TRUE, verifiedAt |-> {t}]

\* bot.action(/verify_(.+)/): User.findOneAndUpdate(..., { upsert: true })
MVerify(u) ==
  /\ variant = "mongo" /\ CanRun /\ ops < Budget
  /\ ops' = ops + 1
  /\ \E t \in now..MaxTime :
       /\ now' = t
       /\ users' = UserFindOneAndUpdate(users, u, MongoVerifyUpdate(t), TRUE)
  /\ acks' = [acks EXCEPT ![u] = @ + 1]
  /\ UNCHANGED <<variant, conc, files, channels, settings, h, sent, issued, uniqueFileId, outcomes, timers, attempted, broadcast, inserts, denied, logUp, disk, writes, slow>>

\* ---------------------------------------------------------------- mongo: file handler
\* a File document as built by new File({...}): the schema defaults
NewFile(fileId, fileType, uploadedBy) ==
  [fileId |-> fileId, fileType |-> fileType, uploadedBy |-> uploadedBy,
   views |-> 0, downloads |-> 0, isActive |-> TRUE]

\* dispatch of bot.on(['document','video','audio','photo'])
MUpload(p, up) ==
  /\ variant = "mongo" /\ CanDispatch(p) /\ ops < Budget
  /\ ops' = ops + 1
  /\ h' = [h EXCEPT ![p] = [Idle EXCEPT !.kind = "upload", !.pc = "draw", !.user = up.from,
                                        !.fileId = up.fileId, !.fileType = up.fileType]]
  /\ UNCHANGED <<variant, conc, users, files, channels, settings, now, sent, issued, acks, uniqueFileId, outcomes, timers, attempted, broadcast, inserts, denied, logUp, disk, writes, slow>>

\* while (!isUnique): shortCode = generateCode(); exists = await File.findOne({ shortCode })
MDraw(p) ==
  /\ variant = "mongo" /\ h[p].kind = "upload" /\ h[p].pc = "draw"
  /\ \E c \in Codes :
       IF c \in DOMAIN files
         THEN h' = [h EXCEPT ![p] = [@ EXCEPT !.code = c]]
         ELSE h' = [h EXCEPT ![p] = [@ EXCEPT !.code = c, !.pc = "save"]]
  /\ UNCHANGED <<variant, conc, users, files, channels, settings, now, ops, sent, issued, acks, uniqueFileId, outcomes, timers, attempted, broadcast, inserts, denied, logUp, disk, writes, slow>>

\* the insert violates a unique index of FileSchema: shortCode, or fileUniqueId,
\* which the handler never sets, so that every document lacks it and the index
\* (when it was built) holds the same null key for each of them
DuplicateKey(fs, c) == c \in DOMAIN fs \/ (uniqueFileId /\ DOMAIN fs # {})

\* await file.save(); a duplicate key error is caught by the handler's catch
MFileSave(p) ==
  /\ variant = "mongo" /\ h[p].kind = "upload" /\ h[p].pc = "save"
  /\ IF DuplicateKey(files, h[p].code)
       THEN /\ files' = files
            /\ h' = [h EXCEPT ![p] = Finish(@, "UPLOAD_ERROR")]
       ELSE /\ files' = Put(files, h[p].code, NewFile(h[p].fileId, h[p].fileType, h[p].user))
            /\ h' = [h EXCEPT ![p] = [@ EXCEPT !.pc = "shared"]]
  /\ UNCHANGED <<variant, conc, users, channels, settings, now, ops, sent, issued, acks, uniqueFileId, outcomes, timers, attempted, broadcast, inserts, denied, logUp, disk, writes, slow>>

\* User.findOneAndUpdate({ userId }, { $inc: { filesShared: 1 } }, { upsert: true }), log, reply
MSharedInc(p) ==
  /\ variant = "mongo" /\ h[p].kind = "upload" /\ h[p].pc = "shared"
  /\ LET u == h[p].user
         old == IF u \in DOMAIN users THEN users[u] ELSE UserDefaults IN
     users' = Put(users, u, [old EXCEPT !.filesShared = @ + 1])
  /\ IF LogThrows(logUp)
       THEN /\ issued' = issued
            /\ h' = [h EXCEPT ![p] = Finish(@, "UPLOAD_ERROR")]
       ELSE /\ issued' = Append(issued, h[p].code)
            /\ h' = [h EXCEPT ![p] = Finish(@, "STORED")]
  /\ UNCHANGED <<variant, conc, files, channels, settings, now, ops, sent, acks, uniqueFileId, outcomes, timers, attempted, broadcast, inserts, denied, logUp, disk, writes, slow>>

\* ---------------------------------------------------------------- mongo: admin commands
\* arguments of /ban and /unban after parseInt: a user id, or nothing usable
BanArgs == Users \cup {"NaN"}

\* bot.command('ban')
MBan(caller, arg) ==
  /\ variant = "mongo" /\ CanRun /\ ops < Budget
  /\ isAdmin(caller) /\ arg # "NaN"
  /\ ops' = ops + 1
  /\ users' = UserFindOneAndUpdate(users, arg, [isBanned |-> TRUE], TRUE)
  /\ UNCHANGED <<variant, conc, files, channels, settings, now, h, sent, issued, acks, uniqueFileId, outcomes, timers, attempted, broadcast, inserts, denied, logUp, disk, writes, slow>>

\* bot.command('unban')
MUnban(caller, arg) ==
  /\ variant = "mongo" /\ CanRun /\ ops < Budget
  /\ isAdmin(caller) /\ arg # "NaN"
  /\ ops' = ops + 1
  /\ users' = UserFindOneAndUpdate(users, arg, [isBanned |-> FALSE], FALSE)
  /\ UNCHANGED <<variant, conc, files, channels, settings, now, h, sent, issued, acks, uniqueFileId, outcomes, timers, attempted, broadcast, inserts, denied, logUp, disk, writes, slow>>

\* the record of code c removed from the collection
FileDeleteOne(fs, c) == [x \in DOMAIN fs \ {c} |-> fs[x]]

\* File.findOneAndUpdate({ shortCode: code }, { isActive: false })
FileDeactivate(fs, c) ==
  IF c \in DOMAIN fs
    THEN [fs EXCEPT ![c] = [@ EXCEPT !.isActive = FALSE]]
    ELSE fs

\* bot.command('deletefile')
MDeleteFile(caller, c) ==
  /\ variant = "mongo" /\ CanRun /\ ops < Budget
  /\ isAdmin(caller)
  /\ ops' = ops + 1
  /\ files' = FileDeactivate(files, c)
  /\ UNCHANGED <<variant, conc, users, channels, settings, now, h, sent, issued, acks, uniqueFileId, outcomes, timers, attempted, broadcast, inserts, denied, logUp, disk, writes, slow>>

\* the sequence s without its first element that satisfies username = name
RECURSIVE DeleteOne(_, _)
DeleteOne(s, name) ==
  IF s = <<>> THEN <<>>
  ELSE IF Head(s).username = name THEN Tail(s)
  ELSE <<Head(s)>> \o DeleteOne(Tail(s), name)

\* bot.command('removechannel'), mongo: Channel.deleteOne({ username })
MRemoveChannel(caller, username) ==
  /\ variant = "mongo" /\ CanRun /\ ops < Budget
  /\ isAdmin(caller)
  /\ ops' = ops + 1
  /\ channels' = DeleteOne(channels, username)
  /\ UNCHANGED <<variant, conc, users, files, settings, now, h, sent, issued, acks, uniqueFileId, outcomes, timers, attempted, broadcast, inserts, denied, logUp, disk, writes, slow>>

\* ---------------------------------------------------------------- mongo: broadcast
\* the report before any broadcast ran
NoBroadcast == [id |-> 0, attempts |-> <<>>, success |-> 0, failed |-> 0]

\* the orders in which a query can return the documents of the set S
Orders(S) == {s \in [1..Cardinality(S) -> S] : \A i, j \in DOMAIN s : i # j => s[i] # s[j]}

\* the query without its filter
UserFindAll(us) == DOMAIN us

\* User.find({ isBanned: false })
UserFindNotBanned(us) == {u \in DOMAIN us : ~us[u].isBanned}

\* for (const user of users) { try { await sendMessage(user.userId, msg); success++ }
\* catch (err) { failed++ } } from index i on, results[i] telling whether the
\* send to users[i] resolved; r.attempts records the sendMessage calls
RECURSIVE BroadcastLoop(_, _, _, _)
BroadcastLoop(us, results, i, r) ==
  IF i > Len(us) THEN r
  ELSE BroadcastLoop(us, results, i + 1,
         [r EXCEPT !.attempts = Append(@, [user |-> us[i], ok |-> results[i]]),
                   !.success = IF results[i] THEN @ + 1 ELSE @,
                   !.failed = IF results[i] THEN @ ELSE @ + 1])

\* bot.command('broadcast'): the owner check, the usage text when no message
\* follows the command, User.find, the loop
Broadcast(caller, text) ==
  /\ variant = "mongo" /\ CanRun /\ ops < Budget
  /\ ops' = ops + 1
  /\ IF ~isOwner(caller) \/ text = ""
       THEN broadcast' = broadcast
       ELSE \E us \in Orders(UserFindNotBanned(users)) :
              \E results \in [1..Len(us) -> BOOLEAN] :
                broadcast' = BroadcastLoop(us, results, 1,
                               [NoBroadcast EXCEPT !.id = broadcast.id + 1])
  /\ UNCHANGED <<variant, conc, users, files, channels, settings, now, h, sent, issued, acks, uniqueFileId, outcomes, timers, attempted, inserts, denied, logUp, disk, writes, slow>>

\* ---------------------------------------------------------------- admin commands of both variants
\* an admin command sent by a caller the handler's first line turns away: the
\* refusal is answered (the mini variant returns without an answer) and
\* nothing else runs
Refused(caller) ==
  /\ CanRun /\ ops < Budget
  /\ ~isAdmin(caller)
  /\ ops' = ops + 1
  /\ denied' = denied \cup {caller}
  /\ UNCHANGED <<variant, conc, users, files, channels, settings, now, h, sent, issued, acks, uniqueFileId, outcomes, timers, attempted, broadcast, inserts, logUp, disk, writes, slow>>

\* answers of ctx.telegram.getChat(username): a chat id, or the call throws
ChatAnswers == ChatIds \cup {Throw}

\* bot.command('addchannel') of the json variants: getChat, then the exists
\* check and the push with no await between them
AddChannel(caller, username, chat) ==
  /\ variant \in JsonVariants /\ CanRun /\ ops < Budget
  /\ isAdmin(caller)
  /\ ops' = ops + 1
  /\ IF chat # Throw /\ \A i \in 1..Len(channels) : channels[i].channelId # chat
       THEN channels' = Append(channels, [channelId |-> chat, username |-> username])
       ELSE channels' = channels
  /\ UNCHANGED <<variant, conc, users, files, settings, now, h, sent, issued, acks, uniqueFileId, outcomes, timers, attempted, broadcast, inserts, denied, logUp, slow>>
  /\ Persist(channels' # channels)

\* Channel.findOne({ channelId })
ChannelFindOne(chs, channelId) == {i \in 1..Len(chs) : chs[i].channelId = channelId}

\* bot.command('addchannel'), mongo, up to its save: getChat, Channel.findOne,
\* new Channel({ channelId, username, title })
MAddChannel(caller, username, chat) ==
  /\ variant = "mongo" /\ CanRun /\ ops < Budget
  /\ isAdmin(caller)
  /\ ops' = ops + 1
  /\ IF chat # Throw /\ ChannelFindOne(channels, chat) = {}
       THEN inserts' = Append(inserts, [channelId |-> chat, username |-> username])
       ELSE inserts' = inserts
  /\ UNCHANGED <<variant, conc, users, files, channels, settings, now, h, sent, issued, acks, uniqueFileId, outcomes, timers, attempted, broadcast, denied, logUp, disk, writes, slow>>

\* a collection without an index on channelId
ChannelNoIndex(chs, doc) == FALSE

\* channelId: { type: String, unique: true }: the insert of doc is rejected
ChannelDuplicateKey(chs, doc) == \E i \in 1..Len(chs) : chs[i].channelId = doc.channelId

\* the sequence s without its i-th element
RemoveAt(s, i) == SubSeq(s, 1, i - 1) \o SubSeq(s, i + 1, Len(s))

\* await channel.save() of the i-th pending addchannel: the document is
\* inserted, or the save rejects and the catch answers with the error
MChannelSave(i) ==
  /\ variant = "mongo"
  /\ i \in DOMAIN inserts
  /\ channels' = IF ChannelDuplicateKey(channels, inserts[i])
                   THEN channels
                   ELSE Append(channels, inserts[i])
  /\ inserts' = RemoveAt(inserts, i)
  /\ UNCHANGED <<variant, conc, users, files, settings, now, ops, h, sent, issued, acks, uniqueFileId, outcomes, timers, attempted, broadcast, denied, logUp, disk, writes, slow>>

\* setSetting(key, value) / db.settings[key] = value
setSetting(st, key, value) == Put(st, key, value)

\* bot.command('setadlink')
SetAdlink(caller, domain, api) ==
  /\ CanRun /\ ops < Budget
  /\ isAdmin(caller)
  /\ ops' = ops + 1
  /\ settings' = setSetting(setSetting(settings, "adlink_domain", domain), "adlink_api", api)
  /\ UNCHANGED <<variant, conc, users, files, channels, now, h, sent, issued, acks, uniqueFileId, outcomes, timers, attempted, broadcast, inserts, denied, logUp, slow>>
  /\ Persist(TRUE)

\* bot.command('setstart') and bot.command('sethelp'): key is start_msg or
\* help_msg, msg the text after the command; the bare command is answered
\* with the usage text
SetMessage(caller, key, msg) ==
  /\ CanRun /\ ops < Budget
  /\ isAdmin(caller)
  /\ ops' = ops + 1
  /\ IF msg = ""
       THEN settings' = settings
       ELSE settings' = setSetting(settings, key, msg)
  /\ UNCHANGED <<variant, conc, users, files, channels, now, h, sent, issued, acks, uniqueFileId, outcomes, timers, attempted, broadcast, inserts, denied, logUp, slow>>
  /\ Persist(msg # "")

\* bot.command('protect'): on, off, or the usage text
Protect(caller, arg) ==
  /\ CanRun /\ ops < Budget
  /\ isAdmin(caller)
  /\ ops' = ops + 1
  /\ IF arg \in {"on", "off"}
       THEN settings' = setSetting(settings, "protect_content", arg = "on")
       ELSE settings' = settings
  /\ UNCHANGED <<variant, conc, users, files, channels, now, h, sent, issued, acks, uniqueFileId, outcomes, timers, attempted, broadcast, inserts, denied, logUp, slow>>
  /\ Persist(arg \in {"on", "off"})

\* the decimal digits and their values
Digits == {"0", "1", "2", "3", "4", "5", "6", "7", "8", "9"}
DigitValue(ch) ==
  CASE ch = "0" -> 0 [] ch = "1" -> 1 [] ch = "2" -> 2 [] ch = "3" -> 3 [] ch = "4" -> 4
    [] ch = "5" -> 5 [] ch = "6" -> 6 [] ch = "7" -> 7 [] ch = "8" -> 8 [] ch = "9" -> 9

\* a number as parseInt returns it: NaN, or the integer n
NaN == [nan |-> TRUE, n |-> 0]
Number(n) == [nan |-> FALSE, n |-> n]

\* the value of the leading digits of s, after the value acc read so far
RECURSIVE LeadingDigits(_, _)
LeadingDigits(s, acc) ==
  IF s = <<>> \/ Head(s) \notin Digits THEN acc
  ELSE LeadingDigits(Tail(s), 10 * acc + DigitValue(Head(s)))

\* parseInt(text) of a word given by its characters; <<>> is the missing word
\* (undefined): an optional sign, then the digits up to the first character
\* that is none; NaN when there is no digit
parseInt(s) ==
  LET signed == s # <<>> /\ Head(s) \in {"-", "+"}
      body == IF signed THEN Tail(s) ELSE s IN
  IF body = <<>> \/ Head(body) \notin Digits THEN NaN
  ELSE IF signed /\ Head(s) = "-" THEN Number(0 - LeadingDigits(body, 0))
  ELSE Number(LeadingDigits(body, 0))

isNaN(v) == v.nan

\* the words an admin passes to /autodelete
AutoDeleteArgs == {<<>>, <<"x">>, <<"0">>, <<"6", "0">>, <<"-", "5">>}

\* bot.command('autodelete'): isNaN(seconds) gives the usage text
SetAutoDelete(caller, arg) ==
  /\ CanRun /\ ops < Budget
  /\ isAdmin(caller)
  /\ ops' = ops + 1
  /\ LET seconds == parseInt(arg) IN
     IF isNaN(seconds)
       THEN settings' = settings
       ELSE settings' = setSetting(settings, "auto_delete", seconds.n)
  /\ UNCHANGED <<variant, conc, users, files, channels, now, h, sent, issued, acks, uniqueFileId, outcomes, timers, attempted, broadcast, inserts, denied, logUp, slow>>
  /\ Persist(~isNaN(parseInt(arg)))

\* the callback of setTimeout: ctx.deleteMessage(msgId).catch(() => {})
TimerFires(m) ==
  /\ CanRun /\ m \in timers
  /\ timers' = timers \ {m}
  /\ \E ok \in BOOLEAN : attempted' = attempted \cup {[msg |-> m, ok |-> ok]}
  /\ UNCHANGED <<variant, conc, users, files, channels, settings, now, ops, h, sent, issued, acks, uniqueFileId, outcomes, broadcast, inserts, denied, logUp, disk, writes, slow>>

\* ---------------------------------------------------------------- json: bot.start
\* dispatch: const file = db.files[args]; if (!file) ...
JStart(p, u, c) ==
  /\ variant \in JsonVariants /\ CanDispatch(p) /\ ops < Budget
  /\ ops' = ops + 1
  /\ LET r == [Idle EXCEPT !.kind = "start", !.user = u, !.code = c, !.acked = (acks[u] > 0)] IN
     IF c \in DOMAIN files
       THEN h' = [h EXCEPT ![p] = [r EXCEPT !.file = files[c], !.pc = "checksub"]]
       ELSE h' = [h EXCEPT ![p] = Finish(r, "NOT_FOUND")]
  /\ UNCHANGED <<variant, conc, users, files, channels, settings, now, sent, issued, acks, uniqueFileId, timers, attempted, broadcast, inserts, denied, logUp, disk, writes, slow>>
  /\ Tally(p)

\* if (!db.users[userId].verified): createShortLink reads the settings at once;
\* the createShortLink of "mini" makes the request whatever they hold
JsonAfterUser(r, us) ==
  IF ~us[r.user].verified
    THEN [r EXCEPT !.pc = "shorten",
                   !.cfg = \/ variant = "mini"
                           \/ Configured(settings["adlink_domain"], settings["adlink_api"])]
    ELSE [r EXCEPT !.pc = "send"]

\* db.users[userId] = { verified: false, ... }
NewJsonUser == [verified |-> FALSE, verifiedAt |-> {}]

\* the user record written without the test for an existing one
CreateUserAlways(us, userId) == Put(us, userId, NewJsonUser)

\* if (!db.users[userId]) db.users[userId] = {...}
GetOrCreateUser(us, userId) == IF userId \notin DOMAIN us THEN Put(us, userId, NewJsonUser) ELSE us

\* checkSubscription, then get or create the user
JCheckSub(p) ==
  /\ variant \in JsonVariants /\ h[p].kind = "start" /\ h[p].pc = "checksub"
  /\ \E answers \in [1..Len(channels) -> MemberAnswers] :
       LET r == checkSubscription(h[p], channels, answers) IN
       IF ~SubscriptionPassed(r)
         THEN /\ h' = [h EXCEPT ![p] = Finish(r, "PENDING_SUBSCRIPTION")]
              /\ users' = users
         ELSE /\ users' = GetOrCreateUser(users, r.user)
              /\ IF r.user \notin DOMAIN users
                   THEN h' = [h EXCEPT ![p] = [r EXCEPT !.pc = "usersaved"]]
                   ELSE h' = [h EXCEPT ![p] = JsonAfterUser(r, users')]
  /\ UNCHANGED <<variant, conc, files, channels, settings, now, ops, sent, issued, acks, uniqueFileId, timers, attempted, broadcast, inserts, denied, logUp, slow>>
  /\ Tally(p)
  /\ Persist(users' # users)

\* await saveDB() returned
JUserSaved(p) ==
  /\ variant \in JsonVariants /\ h[p].kind = "start" /\ h[p].pc = "usersaved"
  /\ h' = [h EXCEPT ![p] = JsonAfterUser(@, users)]
  /\ UNCHANGED <<variant, conc, users, files, channels, settings, now, ops, sent, issued, acks, uniqueFileId, outcomes, timers, attempted, broadcast, inserts, denied, logUp, disk, writes, slow>>

\* createShortLink: the request returned; the reply with the challenge
JShorten(p) ==
  /\ variant \in JsonVariants /\ h[p].kind = "start" /\ h[p].pc = "shorten"
  /\ \E resp \in ShortenerResponses :
       h' = [h EXCEPT ![p] = Finish([@ EXCEPT
               !.resp = IF h[p].cfg THEN resp ELSE "",
               !.shortUrl = createShortLink(DeepLink(h[p].code), h[p].cfg, resp),
               !.ack = IF variant = "json" THEN h[p].code ELSE "",
               !.effects = @ \cup {"challenge"}], "PENDING_VERIFICATION")]
  /\ UNCHANGED <<variant, conc, users, files, channels, settings, now, ops, sent, issued, acks, uniqueFileId, timers, attempted, broadcast, inserts, denied, logUp, disk, writes, slow>>
  /\ Tally(p)

\* ctx.replyWith<Type>(file.fileId, ...), autoDelete, the download log
JSend(p) ==
  /\ variant \in JsonVariants /\ h[p].kind = "start" /\ h[p].pc = "send"
  /\ \E ok \in BOOLEAN :
       IF ok
         THEN /\ sent' = Append(sent, Delivery(p, settings["protect_content"], settings["auto_delete"]))
              /\ timers' = autoDelete(timers, settings["auto_delete"], Len(sent) + 1)
              /\ h' = [h EXCEPT ![p] =
                         IF LogThrows(logUp)
                           THEN Finish([@ EXCEPT !.msg = Len(sent) + 1,
                                                 !.effects = @ \cup {"send"}], "DELIVERY_FAILED")
                           ELSE Finish([@ EXCEPT !.msg = Len(sent) + 1,
                                                 !.effects = @ \cup {"send", "audit"}], "DELIVER")]
         ELSE /\ sent' = sent /\ timers' = timers
              /\ h' = [h EXCEPT ![p] = Finish(@, "DELIVERY_FAILED")]
  /\ UNCHANGED <<variant, conc, users, files, channels, settings, now, ops, issued, acks, uniqueFileId, attempted, broadcast, inserts, denied, logUp, disk, writes, slow>>
  /\ Tally(p)

\* ---------------------------------------------------------------- json: verify_<code>
\* bot.action(/verify_(.+)/): mark the user verified, saveDB
JVerify(u) ==
  /\ variant = "json" /\ CanRun /\ ops < Budget
  /\ ops' = ops + 1
  /\ \E t \in now..MaxTime :
       /\ now' = t
       /\ users' = IF u \notin DOMAIN users
                     THEN Put(users, u, [verified |-> TRUE, verifiedAt |-> {t}])
                     ELSE [users EXCEPT ![u] = [@ EXCEPT !.verified = TRUE, !.verifiedAt = {t}]]
  /\ acks' = [acks EXCEPT ![u] = @ + 1]
  /\ UNCHANGED <<variant, conc, files, channels, settings, h, sent, issued, uniqueFileId, outcomes, timers, attempted, broadcast, inserts, denied, logUp, slow>>
  /\ Persist(TRUE)

\* ---------------------------------------------------------------- verify_sub
\* what bot.action('verify_sub') of "mini" writes when the check passed:
\* if (!db.users[userId]) db.users[userId] = {}; verified = true; verifiedAt = new Date()
MiniVerifySub(us, u, t) ==
  IF u \notin DOMAIN us
    THEN Put(us, u, [verified |-> TRUE, verifiedAt |-> {t}])
    ELSE [us EXCEPT ![u] = [@ EXCEPT !.verified = TRUE, !.verifiedAt = {t}]]

\* bot.action('verify_sub'): checkSubscription(ctx) and the answer to the callback
VerifySub(u) ==
  /\ CanRun /\ ops < Budget
  /\ ops' = ops + 1
  /\ \E answers \in [1..Len(channels) -> MemberAnswers], t \in now..MaxTime :
       LET r == checkSubscription(Idle, channels, answers) IN
       IF variant = "mini" /\ SubscriptionPassed(r)
         THEN users' = MiniVerifySub(users, u, t) /\ now' = t
         ELSE users' = users /\ now' = now
  /\ UNCHANGED <<variant, conc, files, channels, settings, h, sent, issued, acks, uniqueFileId, outcomes, timers, attempted, broadcast, inserts, denied, logUp, slow>>
  /\ Persist(users' # users)

\* ---------------------------------------------------------------- json: file handler
\* const shortCode = generateCode(); db.files[shortCode] = {...}; saveDB; the
\* forward and the upload log; reply
JUpload(up, c) ==
  /\ variant \in JsonVariants /\ CanRun /\ ops < Budget
  /\ ops' = ops + 1
  /\ files' = Put(files, c, [fileId |-> up.fileId, fileType |-> up.fileType, uploadedBy |-> up.from])
  /\ issued' = IF LogThrows(logUp) THEN issued ELSE Append(issued, c)
  /\ UNCHANGED <<variant, conc, users, channels, settings, now, h, sent, acks, uniqueFileId, outcomes, timers, attempted, broadcast, inserts, denied, logUp, slow>>
  /\ Persist(TRUE)

\* ---------------------------------------------------------------- json: loadDB
\* { ...a, ...b }: the own keys of a, then those of b over them
Spread(a, b) == [k \in DOMAIN a \cup DOMAIN b |-> IF k \in DOMAIN b THEN b[k] ELSE a[k]]

\* db = { ...db, ...JSON.parse(data) }
MergeOnLoad(a, b) == Spread(a, b)

\* fs.readFile rejects: there is no database.json
NoFile == [missing |-> TRUE]

\* loadDB(): the file is read and merged into db; without a file the catch
\* writes the db of the module
LoadDB ==
  /\ variant \in JsonVariants /\ ops = 0
  /\ ops' = 1
  /\ IF disk = NoFile
       THEN /\ disk' = DB
            /\ UNCHANGED <<users, files, channels, settings>>
       ELSE LET m == MergeOnLoad(DB, disk) IN
            /\ users' = m.users /\ files' = m.files
            /\ channels' = m.channels /\ settings' = m.settings
            /\ disk' = disk
  /\ UNCHANGED <<variant, conc, now, h, sent, issued, acks, uniqueFileId, outcomes, timers, attempted, broadcast, inserts, denied, logUp, writes, slow>>

\* ---------------------------------------------------------------- json: fs.writeFile
\* the i-th write in flight reaches the file. Each fs.writeFile opens, writes
\* and closes database.json on its own, nothing orders two of them, so the
\* content of the file is the snapshot of whichever is written last
WriteCompletes(i) ==
  /\ variant \in JsonVariants
  /\ i \in DOMAIN writes
  /\ disk' = writes[i]
  /\ writes' = RemoveAt(writes, i)
  /\ UNCHANGED <<variant, conc, users, files, channels, settings, now, ops, h, sent, issued, acks, uniqueFileId, outcomes, timers, attempted, broadcast, inserts, denied, logUp, slow>>

\* ---------------------------------------------------------------- json: removechannel
\* db.channels = db.channels.filter(ch => ch.username !== username)
JRemoveChannel(caller, username) ==
  /\ variant \in JsonVariants /\ CanRun /\ ops < Budget
  /\ isAdmin(caller)
  /\ ops' = ops + 1
  /\ channels' = SelectSeq(channels, LAMBDA ch : ch.username # username)
  /\ UNCHANGED <<variant, conc, users, files, settings, now, h, sent, issued, acks, uniqueFileId, outcomes, timers, attempted, broadcast, inserts, denied, logUp, slow>>
  /\ Persist(TRUE)

\* ---------------------------------------------------------------- specification
\* the steps of bot.start in slot p after its dispatch
StartSteps(p) ==
  \/ MLookup(p) \/ MBanCheck(p) \/ MCheckSub(p) \/ MShorten(p) \/ MViewsSave(p)
  \/ MSend(p) \/ MDownloadsSave(p) \/ MUserSave(p) \/ MAutoDelete(p)
  \/ JCheckSub(p) \/ JUserSaved(p) \/ JShorten(p) \/ JSend(p)


\* db.settings as the module initialises it
JsonDefaults == [adlink_domain |-> "", adlink_api |-> "", start_msg |-> "start", help_msg |-> "help",
                 auto_delete |-> 0, protect_content |-> FALSE]

\* the users a mongo database holds as verified when the bot connects: none,
\* one of them, all of them
StoredVerified == {{}, {"u1"}, Users}

\* the process when the bot starts: the db of the module (json), a mongo
\* database that may hold users verified earlier
InitMemory ==
  /\ variant \in JsonVariants \cup {"mongo"}
  /\ IF variant \in JsonVariants
       THEN /\ users = <<>>
            /\ settings = JsonDefaults
            /\ uniqueFileId = FALSE
       ELSE /\ \E V \in StoredVerified : users = [u \in V |-> StoredVerifiedUser]
            /\ settings = <<>>
            /\ uniqueFileId \in BOOLEAN
  /\ files = <<>>
  /\ channels = <<>>
  /\ now = 0
  /\ ops = 0
  /\ h = [p \in Procs |-> Idle]
  /\ sent = <<>>
  /\ issued = <<>>
  /\ acks = [u \in Users |-> 0]
  /\ outcomes = EmptyBag
  /\ timers = {}
  /\ attempted = {}
  /\ broadcast = NoBroadcast
  /\ inserts = <<>>
  /\ denied = {}

\* the store when the bot starts: for the json variants loadDB found no
\* database.json and wrote the db of the module
InitStore ==
  /\ InitMemory
  /\ disk = IF variant \in JsonVariants THEN DB ELSE <<>>
  /\ writes = <<>>

Init == InitStore /\ conc = FALSE /\ logUp = TRUE /\ slow = FALSE

Handlers ==
  \/ \E p \in Procs, u \in Users, c \in Codes : MStart(p, u, c)
  \/ \E p \in Procs : MLookup(p)
  \/ \E p \in Procs : MBanCheck(p)
  \/ \E p \in Procs : MCheckSub(p)
  \/ \E p \in Procs : MShorten(p)
  \/ \E p \in Procs : MViewsSave(p)
  \/ \E p \in Procs : MSend(p)
  \/ \E p \in Procs : MDownloadsSave(p)
  \/ \E p \in Procs : MUserSave(p)
  \/ \E p \in Procs : MAutoDelete(p)
  \/ \E m \in timers : TimerFires(m)
  \/ \E u \in Users : MVerify(u)
  \/ \E p \in Procs, up \in Uploads : MUpload(p, up)
  \/ \E p \in Procs : MDraw(p)
  \/ \E p \in Procs : MFileSave(p)
  \/ \E p \in Procs : MSharedInc(p)
  \/ \E p \in Procs, u \in Users, c \in Codes : JStart(p, u, c)
  \/ \E p \in Procs : JCheckSub(p)
  \/ \E p \in Procs : JUserSaved(p)
  \/ \E p \in Procs : JShorten(p)
  \/ \E p \in Procs : JSend(p)
  \/ \E u \in Users : JVerify(u)
  \/ \E u \in Users : VerifySub(u)
  \/ \E up \in Uploads, c \in Codes : JUpload(up, c)

AdminCommands ==
  \/ \E caller \in Callers, arg \in BanArgs : MBan(caller, arg)
  \/ \E caller \in Callers, arg \in BanArgs : MUnban(caller, arg)
  \/ \E caller \in Callers, c \in Codes : MDeleteFile(caller, c)
  \/ \E caller \in Callers, n \in Handles : MRemoveChannel(caller, n)
  \/ \E caller \in Callers, n \in Handles : JRemoveChannel(caller, n)
  \/ \E caller \in Callers, n \in Handles, chat \in ChatAnswers : AddChannel(caller, n, chat)
  \/ \E caller \in Callers, n \in Handles, chat \in ChatAnswers : MAddChannel(caller, n, chat)
  \/ \E i \in DOMAIN inserts : MChannelSave(i)
  \/ \E caller \in Callers : SetAdlink(caller, "https://adl", "key")
  \/ \E caller \in Callers, arg \in {"on", "off", "x"} : Protect(caller, arg)
  \/ \E caller \in Callers, arg \in AutoDeleteArgs : SetAutoDelete(caller, arg)

Next == Handlers \/ AdminCommands

Spec == Init /\ [][Next]_vars

\* the same handlers, dispatched while others are in flight
InitConc == InitStore /\ conc = TRUE /\ logUp = TRUE /\ slow = FALSE

SpecConc == InitConc /\ [][Next]_vars

\* a mongo database, handlers one at a time
InitMongo == Init /\ variant = "mongo"

\* the user registry of the mongo variant: the handlers that insert a User
\* document or write its isBanned, and the broadcast that reads them (no file
\* is stored, so that a redemption ends at its lookup)
NextUsers ==
  \/ \E p \in Procs, u \in Users, c \in Codes : MStart(p, u, c)
  \/ \E p \in Procs : MLookup(p)
  \/ \E u \in Users : MVerify(u)
  \/ \E caller \in Callers, arg \in BanArgs : MBan(caller, arg)
  \/ \E caller \in Callers, arg \in BanArgs : MUnban(caller, arg)
  \/ \E caller \in Callers, text \in {"", "hello"} : Broadcast(caller, text)

SpecUsers == InitMongo /\ [][NextUsers]_vars

\* uploads and redemptions of the mongo variant behind gate channels, with a
\* record store whose read of the channel set may reject
NextStoreFaults ==
  \/ \E p \in Procs, u \in Users, c \in Codes : MStart(p, u, c)
  \/ \E p \in Procs : MLookup(p)
  \/ \E p \in Procs : MBanCheck(p)
  \/ \E p \in Procs : MCheckSub(p)
  \/ \E p \in Procs : MCheckSubUnread(p)
  \/ \E p \in Procs : MShorten(p)
  \/ \E p \in Procs : MViewsSave(p)
  \/ \E p \in Procs : MSend(p)
  \/ \E p \in Procs : MDownloadsSave(p)
  \/ \E p \in Procs : MUserSave(p)
  \/ \E p \in Procs : MAutoDelete(p)
  \/ \E p \in Procs, up \in Uploads : MUpload(p, up)
  \/ \E p \in Procs : MDraw(p)
  \/ \E p \in Procs : MFileSave(p)
  \/ \E p \in Procs : MSharedInc(p)
  \/ \E caller \in Callers, n \in Handles, chat \in ChatAnswers : MAddChannel(caller, n, chat)
  \/ \E i \in DOMAIN inserts : MChannelSave(i)

SpecStoreFaults == InitMongo /\ [][NextStoreFaults]_vars

\* the admin surface of the three variants, one command at a time: every
\* admin command from every caller, the owner's broadcast, and the uploads
\* that give /deletefile a record to act on
NextAdmin ==
  \/ AdminCommands
  \/ \E caller \in Callers, key \in {"start_msg", "help_msg"}, msg \in {"", "hi"} :
       SetMessage(caller, key, msg)
  \/ \E caller \in Callers : Refused(caller)
  \/ \E caller \in Callers, text \in {"", "hello"} : Broadcast(caller, text)
  \/ \E p \in Procs, up \in Uploads : MUpload(p, up)
  \/ \E p \in Procs : MDraw(p)
  \/ \E p \in Procs : MFileSave(p)
  \/ \E p \in Procs : MSharedInc(p)
  \/ \E up \in Uploads, c \in Codes : JUpload(up, c)

SpecAdmin == Init /\ [][NextAdmin]_vars

\* uploads, redemptions and verifications of the three variants, one at a
\* time, with a log channel the bot may be unable to write to
InitLog == InitStore /\ conc = FALSE /\ logUp \in BOOLEAN /\ slow = FALSE

NextLog ==
  \/ \E p \in Procs, u \in Users, c \in Codes : MStart(p, u, c)
  \/ \E p \in Procs : MLookup(p)
  \/ \E p \in Procs : MBanCheck(p)
  \/ \E p \in Procs : MCheckSub(p)
  \/ \E p \in Procs : MShorten(p)
  \/ \E p \in Procs : MViewsSave(p)
  \/ \E p \in Procs : MSend(p)
  \/ \E p \in Procs : MDownloadsSave(p)
  \/ \E p \in Procs : MUserSave(p)
  \/ \E p \in Procs : MAutoDelete(p)
  \/ \E u \in Users : MVerify(u)
  \/ \E p \in Procs, up \in Uploads : MUpload(p, up)
  \/ \E p \in Procs : MDraw(p)
  \/ \E p \in Procs : MFileSave(p)
  \/ \E p \in Procs : MSharedInc(p)
  \/ \E p \in Procs, u \in Users, c \in Codes : JStart(p, u, c)
  \/ \E p \in Procs : JCheckSub(p)
  \/ \E p \in Procs : JUserSaved(p)
  \/ \E p \in Procs : JShorten(p)
  \/ \E p \in Procs : JSend(p)
  \/ \E u \in Users : JVerify(u)
  \/ \E up \in Uploads, c \in Codes : JUpload(up, c)

SpecLog == InitLog /\ [][NextLog]_vars

\* the json variant with handlers dispatched while the writes of others are in
\* flight: handlers that change a file, a user, a channel and a setting
InitDisk == InitStore /\ conc = TRUE /\ logUp = TRUE /\ slow = TRUE /\ variant = "json"

NextDisk ==
  \/ \E up \in Uploads, c \in Codes : JUpload(up, c)
  \/ \E u \in Users : JVerify(u)
  \/ \E caller \in Callers, n \in Handles, chat \in ChatAnswers : AddChannel(caller, n, chat)
  \/ \E caller \in Callers, arg \in {"on", "off", "x"} : Protect(caller, arg)
  \/ \E i \in DOMAIN writes : WriteCompletes(i)

SpecDisk == InitDisk /\ [][NextDisk]_vars

\* the start of a json variant over the database.json it finds
SettingKeys == {"adlink_domain", "adlink_api", "start_msg", "help_msg", "auto_delete", "protect_content"}

\* settings an earlier run of the bot wrote, and what else it stored
PersistedSettings == [adlink_domain |-> "https://adl", adlink_api |-> "key", start_msg |-> "hi",
                      help_msg |-> "hi", auto_delete |-> 60, protect_content |-> TRUE]
PersistedRecords ==
  [users |-> [u \in {"u1"} |-> [verified |-> TRUE, verifiedAt |-> {0}]],
   files |-> [c \in {"c1"} |-> [fileId |-> "f1", fileType |-> "document", uploadedBy |-> "u1"]],
   channels |-> <<[channelId |-> "-1001", username |-> "@a"]>>]

\* f on the keys K only
Restrict(f, K) == [k \in K |-> f[k]]

\* the files loadDB can find: none; one with all top-level keys or with the
\* settings only, the settings object holding any subset of the keys; one
\* without settings
PersistedFiles ==
  {NoFile, PersistedRecords}
    \cup {Spread(PersistedRecords, [settings |-> Restrict(PersistedSettings, K)]) : K \in SUBSET SettingKeys}
    \cup {[settings |-> Restrict(PersistedSettings, K)] : K \in SUBSET SettingKeys}

InitLoad ==
  /\ InitMemory /\ variant \in JsonVariants
  /\ conc = FALSE /\ logUp = TRUE /\ slow = FALSE
  /\ writes = <<>>
  /\ disk \in PersistedFiles

NextLoad == LoadDB

SpecLoad == InitLoad /\ [][NextLoad]_vars

\* ---------------------------------------------------------------- properties
AllFree == \A p \in Procs : Free(p)

\* the elements of a sequence
Range(s) == {s[i] : i \in 1..Len(s)}

\* the number of successful sends of the file of code c
Sends(c) == Len(SelectSeq(sent, LAMBDA d : d.code = c))

\* C1: with a gate channel configured, a file is sent only in a redemption in
\* which the membership query of every configured channel returned member,
\* administrator or creator, and for a user whose persisted verified flag is true
C1_DeliveredOnlyThroughBothGates ==
  \A i \in 1..Len(sent) :
    Len(sent[i].gates) > 0 =>
      /\ Len(sent[i].thrown) = 0
      /\ Len(sent[i].notJoined) = 0
      /\ sent[i].verified

\* C2: a channel whose membership query threw is counted as missing, and the
\* check then does not pass: the redemption ends in PENDING_SUBSCRIPTION
C2_FailedQueryCountsAsMissing ==
  \A p \in Procs :
    (h[p].kind = "start" /\ Len(h[p].thrown) > 0) =>
      /\ Range(h[p].thrown) \subseteq Range(h[p].notJoined)
      /\ h[p].pc = "done" /\ h[p].outcome = "PENDING_SUBSCRIPTION"

\* C3: a redemption dispatched after the user's verify_<code> callback has
\* completed is never taken to the verification challenge
C3_VerifiedOnceNeverChallengedAgain ==
  \A p \in Procs :
    (h[p].kind = "start" /\ h[p].acked) =>
      /\ h[p].pc \notin {"shorten", "views"}
      /\ h[p].outcome # "PENDING_VERIFICATION"

\* C4: every code returned by an upload differs from every code returned by an
\* earlier upload
C4_CodesNeverReissued ==
  \A i, j \in 1..Len(issued) : i # j => issued[i] # issued[j]

\* the redemption in slot p, of code c, ended in DELIVER: it has sent the file
\* and saved its downloads increment
Delivered(p, c) ==
  /\ h[p].kind = "start" /\ h[p].code = c /\ h[p].outcome = "DELIVER"
  /\ "downloads" \in h[p].effects

\* C5: once every redemption has returned, the downloads counter of a file
\* holds the increment of each redemption that delivered it: none is lost,
\* also when the code was redeemed twice concurrently
C5_NoLostDownload ==
  (variant = "mongo" /\ AllFree) =>
    \A c \in DOMAIN files :
      files[c].downloads >= Cardinality({p \in Procs : Delivered(p, c)})

\* the code has no record, or a record that is soft-deleted
Missing(c) == c \notin DOMAIN files \/ (variant = "mongo" /\ ~files[c].isActive)

\* slot p takes the LOOKUP step of a redemption, for a code that is missing
LooksUpMissing(p) ==
  \/ variant = "mongo" /\ h[p].kind = "start" /\ h[p].pc = "lookup" /\ h'[p] # h[p]
       /\ Missing(h[p].code)
  \/ variant \in JsonVariants /\ Free(p) /\ h'[p] # h[p] /\ h'[p].kind = "start"
       /\ Missing(h'[p].code)

ChecksBan(p) == variant = "mongo" /\ h[p].kind = "start" /\ h[p].pc = "ban" /\ h'[p] # h[p]

\* C7: BAN_CHECK comes after LOOKUP found the record and before any membership
\* query; for a user whose banned flag is true it ends the redemption in
\* BLOCKED, with no query, challenge or send made and no counter changed
C7_BannedIsBlocked ==
  [][\A p \in Procs :
       ChecksBan(p) =>
         /\ h[p].file # Null /\ h[p].effects = {}
         /\ (h[p].user \in DOMAIN users /\ users[h[p].user].isBanned) =>
              /\ h'[p].pc = "done" /\ h'[p].outcome = "BLOCKED"
              /\ h'[p].effects = {}
              /\ files' = files /\ users' = users /\ sent' = sent]_vars

\* a banned user was answered BLOCKED for an active code
C7_Witness ==
  \E p \in Procs :
    /\ variant = "mongo" /\ h[p].kind = "start" /\ h[p].outcome = "BLOCKED"
    /\ users[h[p].user].isBanned
    /\ h[p].code \in DOMAIN files /\ files[h[p].code].isActive

\* the shortener responses that are failures
ShortenerFailures == {"timeout", "error", "nodata", "status_error", "malformed"}

\* C8: the challenge of a redemption that ends in PENDING_VERIFICATION carries
\* a usable link, and the original deep link when the shortener call failed
C8_ChallengeCarriesUsableLink ==
  \A p \in Procs :
    (h[p].kind = "start" /\ h[p].outcome = "PENDING_VERIFICATION") =>
      /\ h[p].shortUrl # Undefined
      /\ (h[p].cfg /\ h[p].resp \in ShortenerFailures) => h[p].shortUrl = DeepLink(h[p].code)

\* C9: no step takes a user's verified flag from true to false or removes the
\* user's record
C9_VerifiedNeverReverts ==
  [][\A u \in Users : Verified(u) => Verified(u)']_vars

\* a user who acknowledged the challenge was then served a file, still verified
C9_Witness ==
  \E p \in Procs :
    /\ h[p].kind = "start" /\ h[p].outcome = "DELIVER" /\ h[p].acked
    /\ Verified(h[p].user)

\* C10: the verify_<code> callback of a user who is already verified changes
\* nothing in the store
C10_ConsumeIsIdempotent ==
  [][\A u \in Users :
       (acks'[u] = acks[u] + 1 /\ Verified(u)) =>
         /\ users' = users /\ files' = files
         /\ channels' = channels /\ settings' = settings]_vars

\* the persisted verifiedAt of user u
VerifiedAt(u) == IF u \in DOMAIN users THEN users[u].verifiedAt ELSE {}

\* C11: no step changes a user's verified flag or verifiedAt except that user's
\* verify_<code> callback (consumeChallenge): not a redemption that issues a
\* challenge, and not the subscription re-check verify_sub
C11_OnlyConsumeChangesVerified ==
  [][\A u \in Users :
       (Verified(u)' # Verified(u) \/ VerifiedAt(u)' # VerifiedAt(u)) =>
         acks'[u] = acks[u] + 1]_vars

\* C12: a redemption that ended in DELIVERY_FAILED (the user was told that
\* sending failed) has sent no file, incremented no counter, scheduled no
\* deletion and emitted no download record
C12_FailedDeliveryDidNothing ==
  \A p \in Procs :
    (h[p].kind = "start" /\ h[p].outcome = "DELIVERY_FAILED") =>
      /\ h[p].effects \cap {"send", "downloads", "filesAccessed", "audit"} = {}
      /\ h[p].msg = 0

\* the sum of f over the set S
RECURSIVE Sum(_, _)
Sum(f, S) == IF S = {} THEN 0 ELSE LET x == CHOOSE y \in S : TRUE IN f[x] + Sum(f, S \ {x})

\* the number of redemptions of code c that returned with outcome o
Ended(c, o) == Sum([u \in Users |-> CopiesIn(<<u, c, o>>, outcomes)], Users)

\* the number of redemptions of user u that returned with outcome o
EndedFor(u, o) == Sum([c \in Codes |-> CopiesIn(<<u, c, o>>, outcomes)], Codes)

\* C13: with operations that do not overlap, downloads of a record is the number
\* of its redemptions that ended in DELIVER, filesAccessed of a user the number
\* of DELIVER outcomes of that user, and a redemption made after the user's
\* verify_<code> callback that is not stopped by lookup, ban, subscription or
\* the transport ends in DELIVER with downloads at least 1
C13_CountersMatchDeliveries ==
  (variant = "mongo" /\ AllFree) =>
    /\ \A c \in DOMAIN files : files[c].downloads = Ended(c, "DELIVER")
    /\ \A u \in DOMAIN users : users[u].filesAccessed = EndedFor(u, "DELIVER")
    /\ \A p \in Procs :
         (h[p].kind = "start" /\ h[p].acked
            /\ h[p].outcome \notin {"NOT_FOUND", "BLOCKED", "PENDING_SUBSCRIPTION", "DELIVERY_FAILED"}) =>
           h[p].outcome = "DELIVER" /\ files[h[p].code].downloads >= 1

\* C14: where the code is checked before the record is saved (the MongoDB
\* variant), two uploads in flight that drew the same code both return a code:
\* none is answered with an error because its code was taken meanwhile, and
\* once all uploads returned every code handed out has a record of its own
C14_CollisionResolvedByRetry ==
  variant = "mongo" =>
    /\ \A p \in Procs :
         (h[p].kind = "upload" /\ h[p].outcome = "UPLOAD_ERROR") => h[p].code \notin DOMAIN files
    /\ AllFree => Cardinality(DOMAIN files) >= Len(issued)

\* a deleteMessage call was made for message m
Attempted(m) == \E a \in attempted : a.msg = m

\* C15: once the redemptions returned, a message delivered while auto_delete
\* was n > 0 has its deletion scheduled or attempted, and a message delivered
\* while auto_delete was 0 has neither
C15_DeletionScheduledIffConfigured ==
  AllFree =>
    \A i \in 1..Len(sent) :
      (sent[i].seconds > 0) <=> (i \in timers \/ Attempted(i))

\* the step ends the redemption of slot p with outcome o
EndsAs(p, o) ==
  /\ h[p].kind = "start" /\ h[p].pc # "done"
  /\ h'[p].kind = "start" /\ h'[p].pc = "done" /\ h'[p].outcome = o

\* C16: a redemption that ends in PENDING_VERIFICATION has incremented the
\* record's views by exactly 1 in that step, left downloads, filesAccessed and
\* the sends unchanged, and its challenge carries the requested code both in
\* the link and in the acknowledgement action
C16_ChallengeCountsOneView ==
  [][\A p \in Procs :
       EndsAs(p, "PENDING_VERIFICATION") =>
         LET c == h[p].code
             u == h[p].user IN
         /\ "views" \in DOMAIN files[c]
         /\ files'[c].views = files[c].views + 1
         /\ files'[c].downloads = files[c].downloads
         /\ u \in DOMAIN users => users'[u].filesAccessed = users[u].filesAccessed
         /\ sent' = sent
         /\ h'[p].shortUrl \in {DeepLink(c), ShortLink(DeepLink(c))}
         /\ h'[p].ack = c]_vars

\* C17: once the redemptions returned, views of a record is the number of its
\* redemptions that ended in PENDING_VERIFICATION, also when they were handled
\* concurrently, and a single downloads increment is not lost to them
C17_NoLostView ==
  (variant = "mongo" /\ AllFree) =>
    /\ \A c \in DOMAIN files : files[c].views = Ended(c, "PENDING_VERIFICATION")
    /\ \A p \in Procs :
         (h[p].kind = "start" /\ "downloads" \in h[p].effects /\ Sends(h[p].code) = 1) =>
           files[h[p].code].downloads = 1

\* C18: a redemption whose subscription gate failed (a configured channel whose
\* query did not return a satisfying status) ends in PENDING_SUBSCRIPTION that
\* lists every such channel, having issued no challenge, changed no counter
\* and sent no file
C18_GateFailureOnlyPrompts ==
  \A p \in Procs :
    (h[p].kind = "start" /\ (Len(h[p].notJoined) > 0 \/ Len(h[p].thrown) > 0)) =>
      /\ h[p].pc = "done" /\ h[p].outcome = "PENDING_SUBSCRIPTION"
      /\ h[p].effects \subseteq {"query"}
      /\ Range(h[p].thrown) \subseteq Range(h[p].notJoined)
      /\ h[p].shortUrl = Undefined /\ h[p].ack = "" /\ h[p].msg = 0

\* the terminal states of a redemption
Terminal == {"NOT_FOUND", "BLOCKED", "PENDING_SUBSCRIPTION", "PENDING_VERIFICATION",
             "DELIVER", "DELIVERY_FAILED"}

\* the place of a handler position in the order LOOKUP, BAN_CHECK,
\* SUBSCRIPTION_CHECK, VERIFICATION_CHECK, DELIVER, returned
Stage(pc) ==
  CASE pc = "lookup" -> 1
    [] pc = "ban" -> 2
    [] pc = "checksub" -> 3
    [] pc \in {"usersaved", "shorten", "views"} -> 4
    [] pc \in {"send", "downloads", "accessed", "autodelete"} -> 5
    [] pc = "done" -> 6
    [] OTHER -> 0

\* the position of slot p comes later in its stage than position pc
LaterInStage(pc, next) ==
  \/ pc = "usersaved" /\ next \in {"shorten", "views"}
  \/ pc = "shorten" /\ next = "views"
  \/ pc = "send" /\ next \in {"downloads", "accessed", "autodelete"}
  \/ pc = "downloads" /\ next \in {"accessed", "autodelete"}
  \/ pc = "accessed" /\ next = "autodelete"

ChecksSubscription(p) == h[p].kind = "start" /\ h[p].pc = "checksub" /\ h'[p] # h[p]

\* C20: with no gate channel configured the subscription check of a redemption
\* passes, whoever the user is, without a membership query: the redemption is
\* taken to the verification check or the delivery
C20_NoChannelsAlwaysPasses ==
  [][\A p \in Procs :
       (ChecksSubscription(p) /\ channels = <<>>) =>
         /\ h'[p].pc \in {"usersaved", "shorten", "send"}
         /\ "query" \notin h'[p].effects
         /\ h'[p].notJoined = <<>> /\ h'[p].thrown = <<>>]_vars

\* with no channel configured, a user was delivered a file and another was
\* answered with the challenge
C20_Witness ==
  /\ channels = <<>>
  /\ \E p, q \in Procs :
       /\ h[p].kind = "start" /\ h[p].outcome = "DELIVER" /\ h[p].gates = <<>>
       /\ "query" \notin h[p].effects
       /\ h[q].kind = "start" /\ h[q].outcome = "PENDING_VERIFICATION" /\ h[q].gates = <<>>

\* the gate channels of the check made in slot p whose query did not return a
\* satisfying status, in the configured order
Unsatisfied(p) ==
  SelectSeq(h[p].gates, LAMBDA ch : ch \in Range(h[p].notJoined) \cup Range(h[p].thrown))

\* C21: after a check over a non-empty channel set, the missing list holds
\* exactly the configured channels whose query did not return member,
\* administrator or creator, each once and in the configured order, and the
\* check has passed iff that list is empty
C21_MissingListIsExact ==
  \A p \in Procs :
    (h[p].kind = "start" /\ Len(h[p].gates) > 0) =>
      /\ h[p].notJoined = Unsatisfied(p)
      /\ (h[p].pc = "done" /\ h[p].outcome = "PENDING_SUBSCRIPTION") <=> Unsatisfied(p) # <<>>

\* C22: a user becomes verified only in a step of that user's verify_<code>
\* callback (consumeChallenge) and only when an earlier redemption of the user
\* ended with the challenge issued; a verified user stays verified
C22_VerifiedOnlyThroughPending ==
  [][\A u \in Users :
       /\ (~Verified(u) /\ Verified(u)') =>
            /\ acks'[u] = acks[u] + 1
            /\ EndedFor(u, "PENDING_VERIFICATION") > 0
       /\ Verified(u) => Verified(u)']_vars

\* C23: /deletefile of a stored code sets isActive to false on that record
\* and changes nothing else, and of an unknown code changes nothing; no other
\* admin command changes a record; a record that is inactive stays stored and
\* inactive with its file and uploader, the lookup of a redemption of its code
\* ends in NOT_FOUND, and an upload that draws its code draws again without
\* writing
C23_SoftDeleteKeepsCodeReserved ==
  [][variant = "mongo" =>
       /\ (h' = h /\ files' # files) =>
            \E c \in DOMAIN files : files[c].isActive /\ files' = FileDeactivate(files, c)
       /\ \A c \in Codes :
            LET fs == FileDeactivate(files, c) IN
            /\ c \notin DOMAIN files => fs = files
            /\ c \in DOMAIN files =>
                 /\ DOMAIN fs = DOMAIN files
                 /\ fs[c] = [files[c] EXCEPT !.isActive = FALSE]
                 /\ \A d \in DOMAIN files \ {c} : fs[d] = files[d]
                 /\ FileFindActive(fs, c) = Null
            /\ (c \in DOMAIN files /\ ~files[c].isActive) =>
                 /\ c \in DOMAIN files' /\ ~files'[c].isActive
                 /\ files'[c].fileId = files[c].fileId
                 /\ files'[c].uploadedBy = files[c].uploadedBy
                 /\ \A p \in Procs :
                      /\ (h[p].kind = "start" /\ h[p].pc = "lookup" /\ h[p].code = c
                            /\ h'[p] # h[p]) =>
                           h'[p].pc = "done" /\ h'[p].outcome = "NOT_FOUND"
                      /\ (h[p].kind = "upload" /\ h[p].pc = "draw" /\ h'[p] # h[p]
                            /\ h'[p].code = c) =>
                           h'[p].pc = "draw" /\ files' = files /\ issued' = issued]_vars

\* an upload handled after the deletion of a record drew the record's code
\* and is about to draw again
C23_Witness ==
  \E p \in Procs :
    /\ variant = "mongo" /\ ~conc
    /\ h[p].kind = "upload" /\ h[p].pc = "draw"
    /\ h[p].code \in DOMAIN files /\ ~files[h[p].code].isActive

\* C24: the subscription check of a redemption writes neither files, channels
\* nor settings, and no user (bot.start of the db-object variants inserts the
\* record of an unknown user once the check has passed); it reads the channel
\* set of that moment, and whatever the user's earlier redemptions were, the
\* answers of the live queries alone decide: with a gate channel configured
\* the check can block and it can pass
C24_CheckPersistsNothing ==
  [][\A p \in Procs :
       (h[p].kind = "start" /\ h[p].pc = "checksub") =>
         /\ channels # <<>> =>
              /\ ENABLED (StartSteps(p) /\ h'[p].outcome = "PENDING_SUBSCRIPTION")
              /\ ENABLED (StartSteps(p) /\ h'[p].pc # "done")
         /\ h'[p] # h[p] =>
              /\ files' = files /\ channels' = channels /\ settings' = settings
              /\ \/ users' = users
                 \/ /\ variant \in JsonVariants /\ h'[p].pc # "done"
                    /\ h[p].user \notin DOMAIN users
                    /\ users' = Put(users, h[p].user, NewJsonUser)
              /\ h'[p].gates = channels
              /\ (h'[p].outcome = "PENDING_SUBSCRIPTION") <=> (Len(h'[p].notJoined) > 0)]_vars

\* a user who was asked to join passed the check of a later redemption, made
\* with gate channels configured
C24_Witness ==
  \E p \in Procs :
    /\ h[p].kind = "start" /\ h[p].outcome \in {"PENDING_VERIFICATION", "DELIVER"}
    /\ Len(h[p].gates) > 0 /\ "query" \in h[p].effects
    /\ EndedFor(h[p].user, "PENDING_SUBSCRIPTION") > 0

\* C25: the auto-delete setting is an integer that is not negative
C25_AutoDeleteNotNegative ==
  getSetting("auto_delete", 0) \in Nat

\* the step in which the upload of slot p returns
UploadReturns(p) == h[p].kind = "upload" /\ h[p].pc # "done" /\ h'[p].pc = "done"

\* C26: the upload handler of the MongoDB variant, handled alone, returns its
\* code with exactly one record added under it, which holds the uploaded
\* file, its type and its uploader with isActive true and both counters 0,
\* with filesShared of the uploader one higher and every other record as it
\* was; every file sent is the one stored under the redeemed code
C26_StoreCreatesOneRecord ==
  [][(variant = "mongo" /\ ~conc) =>
       /\ \A p \in Procs :
            /\ UploadReturns(p) =>
                 LET c == h[p].code
                     u == h[p].user IN
                 /\ h'[p].outcome = "STORED"
                 /\ issued' = Append(issued, c)
                 /\ c \in DOMAIN files'
                 /\ files'[c] = NewFile(h[p].fileId, h[p].fileType, u)
                 /\ h[p].fileType \in FileTypes
                 /\ users'[u].filesShared =
                      (IF u \in DOMAIN users THEN users[u].filesShared ELSE 0) + 1
            /\ (h[p].kind = "upload" /\ h[p].pc # "done" /\ files' # files) =>
                 /\ h[p].code \notin DOMAIN files
                 /\ DOMAIN files' = DOMAIN files \cup {h[p].code}
                 /\ \A d \in DOMAIN files : files'[d] = files[d]
       /\ \A i \in 1..Len(sent') :
            sent'[i].code \in DOMAIN files' /\ sent'[i].fileId = files'[sent'[i].code].fileId]_vars

\* C27: a broadcast that runs its loop calls sendMessage once for each user
\* who was not banned when it started and for no one else, also after a send
\* failed, and ends with success + failed the number of those users
C27_BroadcastReachesEachOnce ==
  [][broadcast'.id = broadcast.id + 1 =>
       LET N == {u \in DOMAIN users : ~users[u].isBanned}
           a == broadcast'.attempts IN
       /\ {a[i].user : i \in 1..Len(a)} = N
       /\ Len(a) = Cardinality(N)
       /\ broadcast'.success = Cardinality({i \in 1..Len(a) : a[i].ok})
       /\ broadcast'.failed = Cardinality({i \in 1..Len(a) : ~a[i].ok})
       /\ broadcast'.success + broadcast'.failed = Cardinality(N)]_vars

\* a broadcast to two users whose first send failed and whose second was
\* delivered, with no user banned
C27_Witness ==
  /\ Len(broadcast.attempts) = 2
  /\ ~broadcast.attempts[1].ok /\ broadcast.attempts[2].ok
  /\ broadcast.success = 1 /\ broadcast.failed = 1

\* C28: every file sent went through the send operation of the type of the
\* record that was looked up, with that record's file and a boolean
\* protect_content
C28_SentByTypeOfRecord ==
  \A i \in 1..Len(sent) :
    /\ sent[i].method = sent[i].fileType
    /\ sent[i].fileType \in FileTypes
    /\ sent[i].protect \in BOOLEAN

\* C29: no step replaces the file or the uploader of a stored record (a drawn
\* code that exists is not accepted); a draw that is rejected writes nothing;
\* an upload handled alone that returns while a code is unused has stored its
\* record
C29_TakenCodeIsRedrawn ==
  [][/\ \A c \in DOMAIN files :
          /\ c \in DOMAIN files'
          /\ files'[c].fileId = files[c].fileId
          /\ files'[c].uploadedBy = files[c].uploadedBy
     /\ \A p \in Procs :
          /\ (h[p].kind = "upload" /\ h[p].pc = "draw" /\ h'[p].pc = "draw") =>
               files' = files /\ users' = users /\ issued' = issued
          /\ (UploadReturns(p) /\ ~conc /\ DOMAIN files # Codes) =>
               h'[p].outcome = "STORED"]_vars

\* C30: with a gate channel stored, a redemption whose subscription check
\* could not read the channel set ends in PENDING_SUBSCRIPTION: it is not
\* taken to the verification check or the delivery
C30_UnreadableGateBlocks ==
  \A p \in Procs :
    (h[p].kind = "start" /\ "findfailed" \in h[p].effects /\ channels # <<>>) =>
      h[p].pc = "done" /\ h[p].outcome = "PENDING_SUBSCRIPTION"

\* the deliveries of this step: the sends appended to the history
NewSends == {sent'[i] : i \in (Len(sent) + 1)..Len(sent')}

\* C31: while the banned flag of a user is set (a /ban completed and no
\* /unban followed), no step sends a file to that user or raises the user's
\* filesAccessed, also in a redemption that had passed its ban check before
C31_BannedUserGetsNothing ==
  [][\A u \in Users :
       (variant = "mongo" /\ u \in DOMAIN users /\ users[u].isBanned) =>
         /\ \A d \in NewSends : d.user # u
         /\ u \in DOMAIN users'
         /\ users'[u].filesAccessed <= users[u].filesAccessed]_vars

\* C32: once the record of a code is inactive (a /deletefile completed) no
\* step sends the file of that code, and the record stays stored and
\* inactive, also in a redemption that had passed its lookup before
C32_DeletedFileIsNeverSent ==
  [][\A c \in Codes :
       (variant = "mongo" /\ c \in DOMAIN files /\ ~files[c].isActive) =>
         /\ \A d \in NewSends : d.code # c
         /\ c \in DOMAIN files' /\ ~files'[c].isActive]_vars

\* the channel set holds a record with this channelId / this handle
ChannelConfigured(chat) == \E i \in 1..Len(channels) : channels[i].channelId = chat
HandleConfigured(username) == \E i \in 1..Len(channels) : channels[i].username = username

\* some caller's addchannel of handle n whose getChat answered chat
AddChannelStep(n, chat) ==
  \E caller \in Callers : AddChannel(caller, n, chat) \/ MAddChannel(caller, n, chat)

\* some caller's removechannel of handle n
RemoveChannelStep(n) ==
  \E caller \in Callers : JRemoveChannel(caller, n) \/ MRemoveChannel(caller, n)

\* C33: whatever the interleaving of addchannel and removechannel, no two
\* configured channels share a channelId; an addchannel of a configured
\* channel, or one whose getChat throws, leaves the channel set as it was and
\* schedules no insert; a removechannel of a handle that is not configured
\* leaves the channel set as it was.
C33_ChannelSetIsKeyedByChannelId ==
  [][/\ \A i, j \in 1..Len(channels') :
          channels'[i].channelId = channels'[j].channelId => i = j
     /\ \A n \in Handles, chat \in ChatAnswers :
          (AddChannelStep(n, chat) /\ (chat = Throw \/ ChannelConfigured(chat))) =>
            channels' = channels /\ inserts' = inserts
     /\ \A n \in Handles :
          (RemoveChannelStep(n) /\ ~HandleConfigured(n)) => channels' = channels]_vars

\* two addchannel handlers passed the exists check for the same channel; the
\* save of one has inserted it and the save of the other is still to come
C33_Witness ==
  /\ variant = "mongo"
  /\ Len(inserts) = 1
  /\ ChannelConfigured(inserts[1].channelId)

\* an admin command of any kind sent by caller
CommandBy(caller) ==
  \/ \E arg \in BanArgs : MBan(caller, arg) \/ MUnban(caller, arg)
  \/ \E c \in Codes : MDeleteFile(caller, c)
  \/ \E n \in Handles : MRemoveChannel(caller, n) \/ JRemoveChannel(caller, n)
  \/ \E n \in Handles, chat \in ChatAnswers :
       AddChannel(caller, n, chat) \/ MAddChannel(caller, n, chat)
  \/ SetAdlink(caller, "https://adl", "key")
  \/ \E arg \in {"on", "off", "x"} : Protect(caller, arg)
  \/ \E arg \in AutoDeleteArgs : SetAutoDelete(caller, arg)
  \/ \E key \in {"start_msg", "help_msg"}, msg \in {"", "hi"} : SetMessage(caller, key, msg)
  \/ Refused(caller)

\* C34: an admin command from a caller who is neither in config.admins nor
\* the owner leaves settings, channels (stored and being inserted), files and
\* users as they were; a /broadcast from anyone but the owner sends nothing.
C34_AdminSurfaceIsGuarded ==
  [][/\ (settings' # settings \/ channels' # channels \/ inserts' # inserts
            \/ files' # files \/ users' # users) =>
          \A caller \in Callers \ (Admins \cup {OwnerId}) : ~CommandBy(caller)
     /\ broadcast' # broadcast =>
          \A caller \in Callers \ {OwnerId} :
            \A text \in {"", "hello"} : ~Broadcast(caller, text)]_vars

\* a caller outside the admin list was turned away while the store held a
\* file, a channel and a setting an admin had written
C34_Witness ==
  /\ denied \cap Users # {}
  /\ files # <<>>
  /\ channels # <<>>

\* the redemption in slot p returns in this step after the file went out: the
\* json variants return in the step that sends, the mongo variant after the
\* saves of its counters
ReturnsAfterSend(p) ==
  /\ h[p].kind = "start" /\ h[p].pc # "done" /\ h'[p].pc = "done"
  /\ Len(sent') > Len(sent) \/ h[p].pc = "autodelete"

\* C35: while the log channel cannot be written to, every stored record's
\* code has been returned to its uploader (or its upload is about to return
\* it), a redemption that returns after its send and its counter saves
\* returns DELIVER and keeps the counters, and a completed verify_<code>
\* callback leaves the user's record marked (verified, in the json variant).
C35_LogFailureChangesNothing ==
  [][~logUp =>
       /\ \A c \in DOMAIN files' :
            \/ c \in Range(issued')
            \/ \E p \in Procs : h'[p].kind = "upload" /\ h'[p].pc = "shared" /\ h'[p].code = c
       /\ \A p \in Procs :
            ReturnsAfterSend(p) =>
              /\ h'[p].outcome = "DELIVER"
              /\ variant = "mongo" => {"downloads", "filesAccessed"} \subseteq h'[p].effects
              /\ files' = files /\ users' = users
       /\ \A u \in Users :
            acks'[u] > acks[u] =>
              /\ u \in DOMAIN users'
              /\ users'[u].verifiedAt # {}
              /\ variant = "json" => users'[u].verified]_vars

\* with the log channel out of reach an upload returned its code, a user
\* completed the verification and a redemption returned DELIVER
C35_Witness ==
  /\ ~logUp
  /\ issued # <<>>
  /\ \E u \in Users : acks[u] > 0
  /\ \E p \in Procs : h[p].kind = "start" /\ h[p].pc = "done" /\ h[p].outcome = "DELIVER"

\* C36: in the json variants, when no saveDB write is in flight the content
\* of database.json is the in-memory db.
C36_DiskCatchesUp ==
  (variant \in JsonVariants /\ writes = <<>>) => disk = DB

\* C37: after loadDB every setting key with a default in the module holds
\* the value database.json holds for it, or else the default, whichever keys
\* the persisted settings object has; users, files and channels are the
\* persisted ones.
C37_LoadedSettingsAreDefined ==
  (variant \in JsonVariants /\ ops = 1) =>
    /\ \A k \in SettingKeys :
         /\ k \in DOMAIN settings
         /\ settings[k] = IF "settings" \in DOMAIN disk /\ k \in DOMAIN disk.settings
                            THEN disk.settings[k]
                            ELSE JsonDefaults[k]
    /\ "users" \in DOMAIN disk => users = disk.users
    /\ "files" \in DOMAIN disk => files = disk.files
    /\ "channels" \in DOMAIN disk => channels = disk.channels

============================================================================
